---------------------------- MODULE Spec2Model ----------------------------
(***************************************************************************)
(* A model of iamgo: the call graph built by analyze, the path finder      *)
(* (findPath / bfs), the permission mapping table (loadMap,                *)
(* sdkMethodToAction, actionToSDKMethods) and the run of main.             *)
(***************************************************************************)
EXTENDS Integers, Sequences, FiniteSets, TLC

VARIABLES
    pc,             \* position of the run
    callgraph,      \* graph.callgraph: node -> its Out list (callees, in order)
    funcs,          \* the program's functions: node -> its ssa.Function attributes
    reflectionFlag, \* -reflection
    sdkcallsFlag,   \* -sdk-calls
    whyFlag,        \* -why (the empty string: not given)
    bIAMMap,        \* the embedded dataset map.json
    iamMap,         \* the mapping table as loaded (empty until loadMap)
    sdkMethods,     \* main's sdkMethods slice
    tried,          \* the function names handed to whyReachable so far
    stdout,         \* the lines printed by the listing mode
    exit,           \* "": running, "ok": normal return, "fatal": log.Fatalf
    lookupArg,      \* argument of the last table lookup
    lookupResult,   \* its result
    qstart,         \* start argument of the last bfs query (0: none)
    qtarget,        \* target argument of the last path query (0: none)
    path,           \* result of the last path query / the path printed
    clsFn,          \* the function last handed to the classifier
    clsVersion,     \* its sdkVersion
    clsMethod       \* the sdkMethod it contributes (the empty string: none)

graphVars == <<callgraph, funcs>>
flagVars == <<reflectionFlag, sdkcallsFlag, whyFlag>>
runVars == <<sdkMethods, tried, stdout, exit>>
lookupVars == <<lookupArg, lookupResult>>
queryVars == <<qstart, qtarget, path>>
classVars == <<clsFn, clsVersion, clsMethod>>

vars == <<pc, graphVars, flagVars, bIAMMap, iamMap, runVars, lookupVars, queryVars,
          classVars>>

(***************************************************************************)
(* Bounds                                                                  *)
(***************************************************************************)
MaxNodes == 4     \* functions of a program
MaxEdges == 4     \* call edges of the graphs the path finder is queried on
MaxCalls == 2     \* call edges of the program main analyses
MaxRecords == 2   \* permission records of one dataset entry

Nodes == 1..MaxNodes

\* Functions that are no node of the call graph and no entry of the reachable
\* set: a generic function (only its instantiations are called) and the
\* anonymous function declared inside it.
NotANode == MaxNodes + 1
GenericFn == NotANode
GenericAnonFn == NotANode + 1
NilFn == 0

(***************************************************************************)
(* graph.roots: analyze appends main.Func("init"), main.Func("main") for   *)
(* each main package; the model has one main package.                      *)
(***************************************************************************)
InitFn == 1
MainFn == 2
roots == <<InitFn, MainFn>>

(***************************************************************************)
(* Call graphs: every node's Out list, at most MaxEdges edges in all.      *)
(* AddEdge appends to the caller's Out list as callgraph.AddEdge does.     *)
(***************************************************************************)
EmptyGraph == [n \in Nodes |-> <<>>]

AddEdge(g, a, b) == [g EXCEPT ![a] = Append(@, b)]

RECURSIVE GraphsUpTo(_)
GraphsUpTo(k) ==
    IF k = 0 THEN {EmptyGraph}
    ELSE LET prev == GraphsUpTo(k - 1)
         IN prev \cup {AddEdge(g, a, b) : g \in prev, a \in Nodes, b \in Nodes}

AllGraphs == GraphsUpTo(MaxEdges)

(***************************************************************************)
(* A path result: nil, or a (possibly empty) list of edges <<caller,       *)
(* callee>>.  Go tells a nil slice from an empty non-nil one.              *)
(***************************************************************************)
NilPath == [isNil |-> TRUE, edges |-> <<>>]
SomePath(p) == [isNil |-> FALSE, edges |-> p]

NilEdge == <<>>

\* A plausible slip: the walked-back path is returned without being reversed.
Unreversed(s) == s

RECURSIVE Reverse(_)
Reverse(s) == IF s = <<>> THEN <<>> ELSE Append(Reverse(Tail(s)), Head(s))

(***************************************************************************)
(* bfs, graph.go:204-238.                                                  *)
(***************************************************************************)
\* lines 218-226: walk the visited map back from current to the start;
\* path is built callee-first and reversed at the end.
RECURSIVE walkBack(_, _, _)
walkBack(visited, current, acc) ==
    LET edge == visited[current]
    IN IF edge = NilEdge THEN Reverse(acc)
       ELSE walkBack(visited, edge[1], Append(acc, edge))

\* lines 229-234: append the unvisited callees of current, in Out order,
\* recording for each the edge that reached it.
RECURSIVE scanOut(_, _, _, _, _)
scanOut(out, i, current, visited, queue) ==
    IF i > Len(out) THEN [visited |-> visited, queue |-> queue]
    ELSE LET callee == out[i]
         IN IF callee \in DOMAIN visited
            THEN scanOut(out, i + 1, current, visited, queue)
            ELSE scanOut(out, i + 1, current,
                         [n \in DOMAIN visited \cup {callee} |->
                             IF n = callee THEN <<current, callee>> ELSE visited[n]],
                         Append(queue, callee))

\* lines 210-235: the main loop.
RECURSIVE bfsLoop(_, _, _, _)
bfsLoop(g, queue, visited, target) ==
    IF queue = <<>> THEN NilPath
    ELSE LET current == Head(queue)
             rest == Tail(queue)
         IN IF current = target
            THEN SomePath(walkBack(visited, current, <<>>))
            ELSE LET r == scanOut(g[current], 1, current, visited, rest)
                 IN bfsLoop(g, r.queue, r.visited, target)

\* A depth-first search: the first path met, not the shortest.
RECURSIVE dfsOut(_, _, _, _, _)
RECURSIVE dfsVisit(_, _, _, _)
dfsOut(g, current, i, target, seen) ==
    IF i > Len(g[current]) THEN NilPath
    ELSE LET callee == g[current][i]
             p == dfsVisit(g, callee, target, seen \cup {callee})
         IN IF callee \notin seen /\ ~p.isNil
            THEN SomePath(<< <<current, callee>> >> \o p.edges)
            ELSE dfsOut(g, current, i + 1, target, seen)

dfsVisit(g, current, target, seen) ==
    IF current = target THEN SomePath(<<>>)
    ELSE dfsOut(g, current, 1, target, seen)

bfsDepthFirst(g, start, target) == dfsVisit(g, start, target, {start})

bfs(g, start, target) ==
    bfsLoop(g, <<start>>, [n \in {start} |-> NilEdge], target)

(***************************************************************************)
(* findPath, graph.go:190-200: the roots in order, the first non-nil       *)
(* result is returned.                                                     *)
(***************************************************************************)
RECURSIVE findPathFrom(_, _, _, _)
findPathFrom(g, rs, i, target) ==
    IF i > Len(rs) THEN NilPath
    ELSE LET p == bfs(g, rs[i], target)
         IN IF ~p.isNil THEN p ELSE findPathFrom(g, rs, i + 1, target)

\* A plausible slip: only the first root is searched from.
findPathFirstRoot(g, target) == bfs(g, roots[1], target)

\* A plausible slip: len(path) > 0 tested where path != nil is meant, so
\* that a root's empty path does not end the search.
RECURSIVE findPathNonEmptyFrom(_, _, _, _)
findPathNonEmptyFrom(g, rs, i, target) ==
    IF i > Len(rs) THEN NilPath
    ELSE LET p == bfs(g, rs[i], target)
         IN IF ~p.isNil /\ Len(p.edges) > 0 THEN p
            ELSE findPathNonEmptyFrom(g, rs, i + 1, target)

findPathNonEmpty(g, target) == findPathNonEmptyFrom(g, roots, 1, target)

findPath(g, target) == findPathFrom(g, roots, 1, target)

(***************************************************************************)
(* Strings are sequences of tokens; the vocabulary is chosen so that the   *)
(* string functions used by the code act on whole tokens.                  *)
(***************************************************************************)
V1Prefix == "github.com/aws/aws-sdk-go/service/"
V2Prefix == "github.com/aws/aws-sdk-go-v2/service/"

\* unicode.ToLower on the vocabulary.
ToLowerTok(t) ==
    CASE t = "SSM" -> "ssm"
      [] t = "Get" -> "get"
      [] t = "GetV" -> "getv"
      [] t = "Put" -> "put"
      [] t = "List" -> "list"
      [] t = "Request" -> "request"
      [] t = "Client" -> "client"
      [] OTHER -> t

\* strings.ToLower
ToLower(s) == [i \in 1..Len(s) |-> ToLowerTok(s[i])]

\* A plausible slip: a case-sensitive comparison.
EqualExact(s, t) == s = t

\* strings.EqualFold
EqualFold(s, t) == ToLower(s) = ToLower(t)

\* strings.HasPrefix, strings.HasSuffix
HasPrefix(s, pre) == Len(s) >= Len(pre) /\ SubSeq(s, 1, Len(pre)) = pre
HasSuffix(s, suf) ==
    Len(s) >= Len(suf) /\ SubSeq(s, Len(s) - Len(suf) + 1, Len(s)) = suf

\* strings.TrimSuffix
TrimSuffix(s, suf) ==
    IF HasSuffix(s, suf) THEN SubSeq(s, 1, Len(s) - Len(suf)) ELSE s

\* strings.Split(s, sep): the list of the pieces between the separators.
RECURSIVE SplitFrom(_, _, _, _)
SplitFrom(s, sep, i, cur) ==
    IF i > Len(s) THEN <<cur>>
    ELSE IF s[i] = sep THEN <<cur>> \o SplitFrom(s, sep, i + 1, <<>>)
    ELSE SplitFrom(s, sep, i + 1, Append(cur, s[i]))

Split(s, sep) == SplitFrom(s, sep, 1, <<>>)

Range(s) == {s[i] : i \in 1..Len(s)}

\* The orders a Go range over a map with key set S can take.
Perms(S) == {s \in [1..Cardinality(S) -> S] :
                \A i, j \in 1..Cardinality(S) : i # j => s[i] # s[j]}

(***************************************************************************)
(* The functions of the analysed program (ssa.Function): what the code     *)
(* reads of each.  Synthetic is "" for a source function; Syntax tells     *)
(* whether the function has source syntax; Object whether it is declared   *)
(* by name; Origin is the generic function it instantiates (NilFn: none);  *)
(* Parent tells whether it is nested in another function.                  *)
(***************************************************************************)
Fn(syn, syntax, obj, origin, parent, pkgPath, pkgName, recv, name, file) ==
    [Synthetic |-> syn, Syntax |-> syntax, Object |-> obj, Origin |-> origin,
     Parent |-> parent, pkgPath |-> pkgPath, pkgName |-> pkgName,
     recv |-> recv, name |-> name, filename |-> file]

FnAttr(kind) ==
    CASE kind = "init" ->
            Fn("package initializer", FALSE, FALSE, NilFn, FALSE,
               <<"main">>, <<"main">>, <<>>, <<"init">>, <<>>)
      [] kind = "main" ->
            Fn("", TRUE, TRUE, NilFn, FALSE,
               <<"main">>, <<"main">>, <<>>, <<"main">>, <<"/src/app", "/main.go">>)
      [] kind = "helper" ->
            Fn("", TRUE, TRUE, NilFn, FALSE,
               <<"main">>, <<"main">>, <<>>, <<"helper">>, <<"/src/app", "/main.go">>)
      [] kind = "wrapper" ->
            Fn("bound method wrapper", FALSE, FALSE, NilFn, FALSE,
               <<V2Prefix, "ssm">>, <<"ssm">>, <<"Client">>, <<"Get", "$bound">>, <<>>)
      [] kind = "v2Get" ->
            Fn("", TRUE, TRUE, NilFn, FALSE,
               <<V2Prefix, "ssm">>, <<"ssm">>, <<"Client">>, <<"Get">>,
               <<"/mod/ssm", "/api_op_", "Get", ".go">>)
      [] kind = "v2Put" ->
            Fn("", TRUE, TRUE, NilFn, FALSE,
               <<V2Prefix, "ssm">>, <<"ssm">>, <<"Client">>, <<"Put">>,
               <<"/mod/ssm", "/api_op_", "Put", ".go">>)
      [] kind = "v1Get" ->
            Fn("", TRUE, TRUE, NilFn, FALSE,
               <<V1Prefix, "ssm">>, <<"ssm">>, <<"SSM">>, <<"Get", "Request">>,
               <<"/mod/ssmv1", "/api.go">>)
      [] kind = "inst" ->
            Fn("instance of List", TRUE, TRUE, GenericFn, FALSE,
               <<V2Prefix, "ssm">>, <<"ssm">>, <<>>, <<"List", "[int]">>,
               <<"/mod/ssm", "/api_op_", "List", ".go">>)
      [] kind = "closure" ->
            Fn("", TRUE, FALSE, GenericAnonFn, TRUE,
               <<V2Prefix, "ssm">>, <<"ssm">>, <<>>, <<"List", "[int]", "$1">>,
               <<"/mod/ssm", "/api_op_", "List", ".go">>)
      [] kind = "generic" ->
            Fn("", TRUE, TRUE, NilFn, FALSE,
               <<V2Prefix, "ssm">>, <<"ssm">>, <<>>, <<"List">>,
               <<"/mod/ssm", "/api_op_", "List", ".go">>)
      [] kind = "genericAnon" ->
            Fn("", TRUE, FALSE, NilFn, TRUE,
               <<V2Prefix, "ssm">>, <<"ssm">>, <<>>, <<"List", "$1">>,
               <<"/mod/ssm", "/api_op_", "List", ".go">>)

\* The kinds a function other than the roots can be of.
OtherKinds == {"helper", "wrapper", "v2Get", "v2Put", "v1Get", "inst", "closure"}

\* The attributes of function f under the assignment fs of kinds to nodes.
Attr(fs, f) ==
    IF f \in DOMAIN fs THEN FnAttr(fs[f])
    ELSE IF f = GenericFn THEN FnAttr("generic")
    ELSE FnAttr("genericAnon")

\* graph.reachable: every function of the call graph is an entry.
reachable == Nodes

\* ssa.Function.String(): "(*pkg.Recv).Name" for a method, "pkg.Name" else.
FnString(a) ==
    IF a.recv # <<>>
    THEN <<"(*">> \o a.pkgPath \o <<".">> \o a.recv \o <<").">> \o a.name
    ELSE a.pkgPath \o <<".">> \o a.name

(***************************************************************************)
(* The call classifier, part_000:184-230.                                  *)
(***************************************************************************)
isAWSSDKv2Call(a) ==
    /\ HasPrefix(a.pkgPath, <<V2Prefix>>)
    /\ HasSuffix(a.filename, <<"/api_op_">> \o a.name \o <<".go">>)

isAWSSDKv1Call(a) ==
    /\ HasPrefix(a.pkgPath, <<V1Prefix>>)
    /\ HasSuffix(a.filename, <<"/api.go">>)
    /\ HasSuffix(a.name, <<"Request">>)
    /\ ~HasSuffix(a.name, <<"new">>)
    /\ ~HasSuffix(a.name, <<"Set">>)

sdkVersion(a) ==
    IF isAWSSDKv2Call(a) THEN "v2"
    ELSE IF isAWSSDKv1Call(a) THEN "v1"
    ELSE ""

(***************************************************************************)
(* The listing loop of main, part_000:94-134.                              *)
(***************************************************************************)
\* part_000:123-132: the SDK method name of a classified function of SDK
\* generation v: the v1 suffix Request is trimmed, the package name is the
\* service.
\* A plausible slip: the v1 suffix Request is left on the name.
sdkMethodOfUntrimmed(b, v) == b.pkgName \o <<".">> \o b.name

sdkMethodOf(b, v) ==
    b.pkgName \o <<".">> \o
    (IF v = "v1" THEN TrimSuffix(b.name, <<"Request">>) ELSE b.name)

\* A plausible slip: the path filter applied when -reflection is given
\* instead of when it is not.
listEntryFlipped(g, fs, f, reflection) ==
    LET a == Attr(fs, f)
        fn == IF a.Origin # NilFn THEN a.Origin ELSE f
        b == Attr(fs, fn)
        v == sdkVersion(b)
    IN IF a.Synthetic # "" THEN <<>>
       ELSE IF b.Parent THEN <<>>
       ELSE IF v = "" THEN <<>>
       ELSE IF reflection /\ findPath(g, fn).isNil THEN <<>>
       ELSE sdkMethodOf(b, v)

\* One iteration of the loop: the sdkMethod entry f contributes, or the empty
\* string when the iteration ends in a continue.
listEntry(g, fs, f, reflection) ==
    LET a == Attr(fs, f)
        fn == IF a.Origin # NilFn THEN a.Origin ELSE f
        b == Attr(fs, fn)
        v == sdkVersion(b)
    IN IF a.Synthetic # "" THEN <<>>
       ELSE IF b.Parent THEN <<>>
       ELSE IF v = "" THEN <<>>
       ELSE IF ~reflection /\ findPath(g, fn).isNil THEN <<>>
       ELSE sdkMethodOf(b, v)

\* The whole loop, ranging over graph.reachable in the given order.
RECURSIVE listing(_, _, _, _, _)
listing(g, fs, order, i, reflection) ==
    IF i > Len(order) THEN <<>>
    ELSE LET m == listEntry(g, fs, order[i], reflection)
         IN (IF m = <<>> THEN <<>> ELSE <<m>>) \o listing(g, fs, order, i + 1, reflection)

(***************************************************************************)
(* The permission mapping table, README.md:223-267 (map.go).  A table maps *)
(* an SDK method name to its list of IAM actions; order is the order in    *)
(* which the range over the Go map visits the keys.                        *)
(***************************************************************************)
EmptyMap == [k \in {} |-> <<>>]

\* sdkMethodToAction: the first action of the first matching key that has one.
RECURSIVE sdkMethodToActionFrom(_, _, _, _)
sdkMethodToActionFrom(tbl, apiMethod, order, i) ==
    IF i > Len(order) THEN <<>>
    ELSE IF EqualFold(order[i], apiMethod) /\ Len(tbl[order[i]]) > 0
         THEN tbl[order[i]][1]
         ELSE sdkMethodToActionFrom(tbl, apiMethod, order, i + 1)

\* A plausible slip: the method name compared case-sensitively.
RECURSIVE sdkMethodToActionExactFrom(_, _, _, _)
sdkMethodToActionExactFrom(tbl, apiMethod, order, i) ==
    IF i > Len(order) THEN <<>>
    ELSE IF EqualExact(order[i], apiMethod) /\ Len(tbl[order[i]]) > 0
         THEN tbl[order[i]][1]
         ELSE sdkMethodToActionExactFrom(tbl, apiMethod, order, i + 1)

sdkMethodToActionExact(tbl, apiMethod, order) ==
    sdkMethodToActionExactFrom(tbl, apiMethod, order, 1)

sdkMethodToAction(tbl, apiMethod, order) ==
    sdkMethodToActionFrom(tbl, apiMethod, order, 1)

\* The inner loop of actionToSDKMethods over one key's records.
RECURSIVE matchRecords(_, _, _, _)
matchRecords(key, privs, action, j) ==
    IF j > Len(privs) THEN <<>>
    ELSE (IF EqualFold(privs[j], action) THEN <<key>> ELSE <<>>)
         \o matchRecords(key, privs, action, j + 1)

\* A plausible slip: the action compared case-sensitively.
RECURSIVE matchRecordsExact(_, _, _, _)
matchRecordsExact(key, privs, action, j) ==
    IF j > Len(privs) THEN <<>>
    ELSE (IF EqualExact(privs[j], action) THEN <<key>> ELSE <<>>)
         \o matchRecordsExact(key, privs, action, j + 1)

RECURSIVE actionToSDKMethodsExactFrom(_, _, _, _)
actionToSDKMethodsExactFrom(tbl, action, order, i) ==
    IF i > Len(order) THEN <<>>
    ELSE matchRecordsExact(order[i], tbl[order[i]], action, 1)
         \o actionToSDKMethodsExactFrom(tbl, action, order, i + 1)

actionToSDKMethodsExact(tbl, action, order) ==
    actionToSDKMethodsExactFrom(tbl, action, order, 1)

RECURSIVE actionToSDKMethodsFrom(_, _, _, _)
actionToSDKMethodsFrom(tbl, action, order, i) ==
    IF i > Len(order) THEN <<>>
    ELSE matchRecords(order[i], tbl[order[i]], action, 1)
         \o actionToSDKMethodsFrom(tbl, action, order, i + 1)

actionToSDKMethods(tbl, action, order) ==
    actionToSDKMethodsFrom(tbl, action, order, 1)

(***************************************************************************)
(* possibleFunctionNames, part_000:166-182.                                *)
(***************************************************************************)
\* A plausible slip: only the v2 name is produced.
possibleFunctionNamesV2Only(sdkMethod) ==
    LET parts == Split(sdkMethod, ".")
        service == ToLower(parts[1])
        method == parts[2]
    IN << <<"(*", V2Prefix>> \o service \o <<".", "Client", ").">> \o method >>

possibleFunctionNames(sdkMethod) ==
    LET parts == Split(sdkMethod, ".")
        service == ToLower(parts[1])
        method == parts[2]
        v1 == <<"(*", V1Prefix>> \o service \o <<".">> \o parts[1] \o <<").">>
              \o method \o <<"Request">>
        v2 == <<"(*", V2Prefix>> \o service \o <<".", "Client", ").">> \o method
    IN <<v1, v2>>

\* The names the explain loop goes through, in order (part_000:82-84).
RECURSIVE candidates(_, _)
candidates(methods, i) ==
    IF i > Len(methods) THEN <<>>
    ELSE possibleFunctionNames(methods[i]) \o candidates(methods, i + 1)

(***************************************************************************)
(* findFunc, graph.go:147-156: the first entry of the range over           *)
(* g.reachable that matches; over all orders of the range, any match.      *)
(***************************************************************************)
findFuncMatches(fs, fnName) ==
    {fn \in reachable :
        LET a == Attr(fs, fn)
        IN a.Synthetic = "" /\ a.Object /\ FnString(a) = fnName}

findFuncResults(fs, fnName) ==
    IF findFuncMatches(fs, fnName) = {} THEN {NilFn} ELSE findFuncMatches(fs, fnName)

(***************************************************************************)
(* callgraph.Graph.DeleteSyntheticNodes, called at graph.go:99: every node *)
(* without source syntax, other than the graph's root and the package      *)
(* initializers, is removed and each pair of an edge into it and an edge   *)
(* out of it is replaced by a direct edge, unless that edge exists.        *)
(***************************************************************************)
hasEdge(g, c, d) == \E i \in 1..Len(g[c]) : g[c][i] = d

RECURSIVE addEdges(_, _, _, _)
addEdges(g, c, outs, i) ==
    IF i > Len(outs) THEN g
    ELSE addEdges(IF hasEdge(g, c, outs[i]) THEN g ELSE AddEdge(g, c, outs[i]),
                  c, outs, i + 1)

RECURSIVE inlineNode(_, _, _)
inlineNode(g, n, callers) ==
    IF callers = {} THEN g
    ELSE LET c == CHOOSE x \in callers : \A y \in callers : x <= y
         IN inlineNode(addEdges(g, c, g[n], 1), n, callers \ {c})

DeleteNode(g, n) ==
    [m \in DOMAIN g |-> IF m = n THEN <<>> ELSE SelectSeq(g[m], LAMBDA x : x # n)]

isSyntheticNode(fs, n) ==
    /\ n # roots[1]
    /\ fs[n] # "init"
    /\ ~Attr(fs, n).Syntax

RECURSIVE DeleteSyntheticNodes(_, _, _, _)
DeleteSyntheticNodes(g, fs, order, i) ==
    IF i > Len(order) THEN g
    ELSE LET n == order[i]
         IN IF isSyntheticNode(fs, n)
            THEN DeleteSyntheticNodes(
                    DeleteNode(inlineNode(g, n, {c \in DOMAIN g : hasEdge(g, c, n)}), n),
                    fs, order, i + 1)
            ELSE DeleteSyntheticNodes(g, fs, order, i + 1)

(***************************************************************************)
(* Reference notions the claims are stated with (not code).                *)
(***************************************************************************)
\* The callees of the nodes of S.
Succ(g, S) == UNION {{g[n][i] : i \in 1..Len(g[n])} : n \in S}

\* The nodes some node of S reaches by at most k call edges.
RECURSIVE Within(_, _, _)
Within(g, S, k) == IF k = 0 THEN S ELSE LET W == Within(g, S, k - 1) IN W \cup Succ(g, W)

\* s reaches t by a directed path of (zero or more) call edges.
Reaches(g, s, t) == t \in Within(g, {s}, MaxNodes)

\* The least number of edges of a path from s to t (for s that reaches t).
Dist(g, s, t) == CHOOSE k \in 0..MaxNodes :
                    /\ t \in Within(g, {s}, k)
                    /\ \A j \in 0..(k - 1) : t \notin Within(g, {s}, j)

RootIds == {roots[i] : i \in 1..Len(roots)}

\* Some root reaches t.
RootReaches(g, t) == \E r \in RootIds : Reaches(g, r, t)

\* e is an edge of g.
IsEdge(g, e) == /\ e[1] \in DOMAIN g
                /\ \E i \in 1..Len(g[e[1]]) : g[e[1]][i] = e[2]

(***************************************************************************)
(* Datasets and flag values.                                               *)
(***************************************************************************)
KeyGet == <<"SSM", ".", "Get">>
KeyGetLower == <<"ssm", ".", "get">>
KeyPut == <<"SSM", ".", "Put">>
ActGet == <<"ssm", ":", "Get">>
ActGetV == <<"ssm", ":", "GetV">>
ActPut == <<"ssm", ":", "Put">>

\* Values of -why that pass the format check of part_000:57-63.
WhyGetLower == <<"ssm", ":", "get">>
WhyGetUpper == <<"SSM", ":", "Get">>
WhyPut == <<"ssm", ":", "Put">>

\* The datasets main is run with.
RunDatasets ==
    { KeyGet :> <<ActGet, ActGetV>> @@ KeyPut :> <<ActGet>>,
      KeyPut :> <<ActPut>> }

\* The record lists of at most k records.
RECURSIVE RecordLists(_)
RecordLists(k) ==
    IF k = 0 THEN {<<>>}
    ELSE LET prev == RecordLists(k - 1)
         IN prev \cup {Append(l, a) : l \in prev, a \in {ActGet, ActGetV, ActPut}}

\* The datasets the table is queried on: any keys, any record lists.
AllDatasets ==
    UNION {[K -> RecordLists(MaxRecords)] : K \in SUBSET {KeyGet, KeyGetLower, KeyPut}}

\* The kinds of the functions: the roots are init and main; no two nodes are
\* the same declared function.
Declared == {"helper", "v2Get", "v2Put", "v1Get"}
AllFuncs ==
    {fs \in [Nodes -> OtherKinds \cup {"init", "main"}] :
        /\ fs[InitFn] = "init"
        /\ fs[MainFn] = "main"
        /\ \A n \in Nodes \ {InitFn, MainFn} : fs[n] \in OtherKinds
        /\ \A n, m \in Nodes : (n # m /\ fs[n] \in Declared) => fs[n] # fs[m]}

PlainFuncs == [n \in Nodes |-> IF n = InitFn THEN "init"
                               ELSE IF n = MainFn THEN "main" ELSE "helper"]

IdleRun ==
    /\ sdkMethods = <<>>
    /\ tried = <<>>
    /\ stdout = <<>>
    /\ exit = ""

IdleLookup == lookupArg = <<>> /\ lookupResult = <<>>

IdleQuery == qstart = 0 /\ qtarget = 0 /\ path = NilPath

IdleClass == clsFn = <<>> /\ clsVersion = "" /\ clsMethod = <<>>

(***************************************************************************)
(* SpecPath: the path finder queried on every bounded call graph.          *)
(***************************************************************************)
InitPath ==
    /\ pc = "ready"
    /\ callgraph \in AllGraphs
    /\ funcs = PlainFuncs
    /\ reflectionFlag = FALSE
    /\ sdkcallsFlag = FALSE
    /\ whyFlag = <<>>
    /\ bIAMMap = EmptyMap
    /\ iamMap = EmptyMap
    /\ IdleRun
    /\ IdleLookup
    /\ IdleQuery
    /\ IdleClass

\* One call of g.bfs(start, target); findPath calls it with a root.
QueryBfs ==
    /\ pc = "ready"
    /\ \E s \in RootIds, t \in Nodes \cup {NotANode} :
          /\ qstart' = s
          /\ qtarget' = t
          /\ path' = bfs(callgraph, s, t)
    /\ pc' = "bfs"
    /\ UNCHANGED <<classVars, graphVars, flagVars, bIAMMap, iamMap, runVars, lookupVars>>

\* One call of g.findPath(target).
QueryFindPath ==
    /\ pc = "ready"
    /\ \E t \in Nodes \cup {NotANode} :
          /\ qtarget' = t
          /\ path' = findPath(callgraph, t)
    /\ qstart' = 0
    /\ pc' = "findPath"
    /\ UNCHANGED <<classVars, graphVars, flagVars, bIAMMap, iamMap, runVars, lookupVars>>

NextPath == QueryBfs \/ QueryFindPath

SpecPath == InitPath /\ [][NextPath]_vars

(***************************************************************************)
(* SpecMap: the mapping table loaded from every bounded dataset and        *)
(* queried in both directions.                                             *)
(***************************************************************************)
InitMap ==
    /\ pc = "unloaded"
    /\ callgraph = EmptyGraph
    /\ funcs = PlainFuncs
    /\ reflectionFlag = FALSE
    /\ sdkcallsFlag = FALSE
    /\ whyFlag = <<>>
    /\ bIAMMap \in AllDatasets
    /\ iamMap = EmptyMap
    /\ IdleRun
    /\ IdleLookup
    /\ IdleQuery
    /\ IdleClass

\* loadMap, README.md:223-229: the table is the unmarshalled dataset.
loadMap == bIAMMap

LoadMap ==
    /\ pc = "unloaded"
    /\ iamMap' = loadMap
    /\ pc' = "loaded"
    /\ UNCHANGED <<classVars, graphVars, flagVars, bIAMMap, runVars, lookupVars, queryVars>>

\* One call of sdkMethodToAction(apiMethod).
Forward ==
    /\ pc = "loaded"
    /\ \E m \in {<<"ssm", ".", "Get">>, <<"ssm", ".", "Put">>},
          order \in Perms(DOMAIN iamMap) :
          /\ lookupArg' = m
          /\ lookupResult' = sdkMethodToAction(iamMap, m, order)
    /\ pc' = "forward"
    /\ UNCHANGED <<classVars, graphVars, flagVars, bIAMMap, iamMap, runVars, queryVars>>

\* One call of actionToSDKMethods(action).
Reverse_ ==
    /\ pc = "loaded"
    /\ \E a \in {WhyGetLower, WhyGetUpper, WhyPut},
          order \in Perms(DOMAIN iamMap) :
          /\ lookupArg' = a
          /\ lookupResult' = actionToSDKMethods(iamMap, a, order)
    /\ pc' = "reverse"
    /\ UNCHANGED <<classVars, graphVars, flagVars, bIAMMap, iamMap, runVars, queryVars>>

NextMap == LoadMap \/ Forward \/ Reverse_

SpecMap == InitMap /\ [][NextMap]_vars

(***************************************************************************)
(* Spec: one run of main, from the return of analyze (part_000:66) on.     *)
(***************************************************************************)
Init ==
    /\ pc = "analyzed"
    /\ callgraph \in GraphsUpTo(MaxCalls)
    /\ funcs \in AllFuncs
    /\ reflectionFlag \in BOOLEAN
    /\ sdkcallsFlag \in BOOLEAN
    /\ whyFlag \in {<<>>, WhyGetLower}
    /\ bIAMMap \in RunDatasets
    /\ iamMap = EmptyMap
    /\ IdleRun
    /\ IdleLookup
    /\ IdleQuery
    /\ IdleClass

\* part_000:68-72: the table is loaded unless -sdk-calls is given.
LoadMapStep ==
    /\ pc = "analyzed"
    /\ iamMap' = IF ~sdkcallsFlag THEN loadMap ELSE iamMap
    /\ pc' = "mapstep"
    /\ UNCHANGED <<classVars, graphVars, flagVars, bIAMMap, runVars, lookupVars, queryVars>>

\* part_000:76-81: the reverse lookup of explain mode.
WhyLookup ==
    /\ pc = "mapstep"
    /\ whyFlag # <<>>
    /\ \E order \in Perms(DOMAIN iamMap) :
          sdkMethods' = actionToSDKMethods(iamMap, whyFlag, order)
    /\ lookupArg' = whyFlag
    /\ lookupResult' = sdkMethods'
    /\ IF Len(sdkMethods') = 0
       THEN exit' = "fatal" /\ pc' = "done"
       ELSE exit' = exit /\ pc' = "why"
    /\ UNCHANGED <<classVars, graphVars, flagVars, bIAMMap, iamMap, tried, stdout, queryVars>>

\* part_000:82-90 with whyReachable (graph.go:93-107) and printPath: the next
\* candidate name is looked up; its path, if any, is printed and main returns.
WhyTry ==
    /\ pc = "why"
    /\ Len(tried) < Len(candidates(sdkMethods, 1))
    /\ LET fnName == candidates(sdkMethods, 1)[Len(tried) + 1]
       IN /\ tried' = Append(tried, fnName)
          /\ \E fn \in findFuncResults(funcs, fnName) :
                IF fn = NilFn
                THEN /\ UNCHANGED <<callgraph, queryVars, exit>>
                     /\ pc' = "why"
                ELSE \E order \in Perms({n \in Nodes : isSyntheticNode(funcs, n)}) :
                        /\ callgraph' = DeleteSyntheticNodes(callgraph, funcs, order, 1)
                        /\ qstart' = 0
                        /\ qtarget' = fn
                        /\ path' = findPath(callgraph', fn)
                        /\ IF ~path'.isNil
                           THEN exit' = "ok" /\ pc' = "done"
                           ELSE exit' = exit /\ pc' = "why"
    /\ UNCHANGED <<classVars, funcs, flagVars, bIAMMap, iamMap, sdkMethods, stdout, lookupVars>>

\* part_000:91: no candidate gave a path.
WhyFail ==
    /\ pc = "why"
    /\ Len(tried) = Len(candidates(sdkMethods, 1))
    /\ exit' = "fatal"
    /\ pc' = "done"
    /\ UNCHANGED <<classVars, graphVars, flagVars, bIAMMap, iamMap, sdkMethods, tried, stdout,
                   lookupVars, queryVars>>

\* part_000:94-138: the listing loop over graph.reachable.
Classify ==
    /\ pc = "mapstep"
    /\ whyFlag = <<>>
    /\ \E order \in Perms(reachable) :
          sdkMethods' = listing(callgraph, funcs, order, 1, reflectionFlag)
    /\ IF Len(sdkMethods') = 0
       THEN exit' = "fatal" /\ pc' = "done"
       ELSE exit' = exit /\ pc' = "listed"
    /\ UNCHANGED <<classVars, graphVars, flagVars, bIAMMap, iamMap, tried, stdout, lookupVars,
                   queryVars>>

\* part_000:139-144: -sdk-calls prints the SDK calls.
PrintCalls ==
    /\ pc = "listed"
    /\ sdkcallsFlag
    /\ stdout' = sdkMethods
    /\ exit' = "ok"
    /\ pc' = "done"
    /\ UNCHANGED <<classVars, graphVars, flagVars, bIAMMap, iamMap, sdkMethods, tried, lookupVars,
                   queryVars>>

\* part_000:146-152: one forward lookup for each SDK call, each with its own
\* range over the table; the empty results are left out.
RECURSIVE iamActionsOf(_, _, _, _)
iamActionsOf(tbl, methods, orders, i) ==
    IF i > Len(methods) THEN <<>>
    ELSE LET iamAction == sdkMethodToAction(tbl, methods[i], orders[i])
         IN (IF iamAction # <<>> THEN <<iamAction>> ELSE <<>>)
            \o iamActionsOf(tbl, methods, orders, i + 1)

\* part_000:146-160: the IAM actions are printed, or the run ends fatally.
MapActions ==
    /\ pc = "listed"
    /\ ~sdkcallsFlag
    /\ \E orders \in [1..Len(sdkMethods) -> Perms(DOMAIN iamMap)] :
          LET iamActions == iamActionsOf(iamMap, sdkMethods, orders, 1)
          IN IF Len(iamActions) = 0
             THEN stdout' = stdout /\ exit' = "fatal"
             ELSE stdout' = iamActions /\ exit' = "ok"
    /\ pc' = "done"
    /\ UNCHANGED <<classVars, graphVars, flagVars, bIAMMap, iamMap, sdkMethods, tried, lookupVars,
                   queryVars>>

Next ==
    \/ LoadMapStep
    \/ WhyLookup
    \/ WhyTry
    \/ WhyFail
    \/ Classify
    \/ PrintCalls
    \/ MapActions

Spec == Init /\ [][Next]_vars

(***************************************************************************)
(* SpecClass: the classifier applied to every bounded function, as the     *)
(* listing loop applies it (part_000:110-133).                             *)
(***************************************************************************)
\* Package paths: an SDK v1 service, an SDK v2 service, a package of
\* neither; the last element is the package name.
ClassPkgPrefixes == {V1Prefix, V2Prefix, "example.com/"}
ClassServices == {"ssm", "kms"}

\* Function names.
ClassNames ==
    { <<"Get">>, <<"Put">>, <<"Get", "Request">>, <<"Put", "Request">>,
      <<"new", "Request">>, <<"Request">>, <<"Request", "Set">> }

\* File names of the declarations.
ClassFiles ==
    { <<"/mod", "/api.go">>, <<"/mod", "/service.go">>, <<"/mod", "/my", "api.go">> }
    \cup { <<"/mod", "/api_op_">> \o n \o <<".go">> : n \in ClassNames }

\* The source functions the classifier is applied to.
ClassFuncs ==
    { Fn("", TRUE, TRUE, NilFn, FALSE, <<pre, svc>>, <<svc>>, <<"Client">>, n, file) :
        pre \in ClassPkgPrefixes, svc \in ClassServices,
        n \in ClassNames, file \in ClassFiles }

InitClass ==
    /\ pc = "unclassified"
    /\ callgraph = EmptyGraph
    /\ funcs = PlainFuncs
    /\ reflectionFlag = FALSE
    /\ sdkcallsFlag = FALSE
    /\ whyFlag = <<>>
    /\ bIAMMap = EmptyMap
    /\ iamMap = EmptyMap
    /\ IdleRun
    /\ IdleLookup
    /\ IdleQuery
    /\ clsFn \in ClassFuncs
    /\ clsVersion = ""
    /\ clsMethod = <<>>

\* part_000:110-133: sdkVersion decides whether the function is an SDK
\* call; if it is, its sdkMethod name is formed.
ClassifyFn ==
    /\ pc = "unclassified"
    /\ clsVersion' = sdkVersion(clsFn)
    /\ clsMethod' = IF clsVersion' = "" THEN <<>> ELSE sdkMethodOf(clsFn, clsVersion')
    /\ pc' = "classified"
    /\ UNCHANGED <<clsFn, graphVars, flagVars, bIAMMap, iamMap, runVars, lookupVars,
                   queryVars>>

NextClass == ClassifyFn

SpecClass == InitClass /\ [][NextClass]_vars

(***************************************************************************)
(* C1: whenever bfs(start, target) returns a path, its number of edges is  *)
(* the least number of edges of any directed path of call edges from start *)
(* to target.                                                              *)
(***************************************************************************)
C1_BfsMinimal ==
    (pc = "bfs" /\ ~path.isNil) =>
        /\ Reaches(callgraph, qstart, qtarget)
        /\ Len(path.edges) = Dist(callgraph, qstart, qtarget)

\* The graph root->a->b->target plus root->target (the longer way first in
\* root's Out list), queried from root: the single-edge path is returned.
C1_Witness ==
    /\ pc = "bfs"
    /\ callgraph = [n \in Nodes |-> CASE n = 1 -> <<2, 4>>
                                      [] n = 2 -> <<3>>
                                      [] n = 3 -> <<4>>
                                      [] OTHER -> <<>>]
    /\ qstart = 1
    /\ qtarget = 4
    /\ path = SomePath(<< <<1, 4>> >>)

(***************************************************************************)
(* C2: the path findPath returns is no longer than the shortest path from  *)
(* any root to the target, whichever root that is.                         *)
(***************************************************************************)
C2_MinimalOverRoots ==
    (pc = "findPath" /\ ~path.isNil) =>
        \A r \in RootIds :
            Reaches(callgraph, r, qtarget) =>
                Len(path.edges) <= Dist(callgraph, r, qtarget)

(***************************************************************************)
(* C3: findPath(target) returns nil exactly when no root reaches the       *)
(* target by a directed path of call edges (a root reaches itself by the   *)
(* path of no edge); a target that is no node of the graph is reached by   *)
(* no root.                                                                *)
(***************************************************************************)
C3_NilIffUnreachable ==
    pc = "findPath" => (path.isNil <=> ~RootReaches(callgraph, qtarget))

\* A target only the second root reaches, by two edges or more: a non-nil
\* path is returned.
C3_Witness ==
    /\ pc = "findPath"
    /\ ~path.isNil
    /\ ~Reaches(callgraph, roots[1], qtarget)
    /\ Len(path.edges) >= 2

(***************************************************************************)
(* C4: the forward lookup returns every permission identifier the table    *)
(* records for the operation: each record of each entry whose name matches *)
(* the operation is what the lookup returns.                               *)
(***************************************************************************)
C4_AllPermissionsReturned ==
    pc = "forward" =>
        \A k \in DOMAIN iamMap :
            EqualFold(k, lookupArg) =>
                \A i \in 1..Len(iamMap[k]) : iamMap[k][i] = lookupResult

(***************************************************************************)
(* C6: round trip: for every operation name of the table and every         *)
(* identifier among its permission records, the reverse lookup of that     *)
(* identifier, in any letter case, includes the operation name.            *)
(***************************************************************************)
C6_RoundTrip ==
    pc = "reverse" =>
        \A k \in DOMAIN iamMap :
            \A i \in 1..Len(iamMap[k]) :
                EqualFold(iamMap[k][i], lookupArg) => k \in Range(lookupResult)

\* The identifier is the second record of an entry and is asked for in
\* another letter case; the entry's name is in the result.
C6_Witness ==
    /\ pc = "reverse"
    /\ lookupArg = WhyGetUpper
    /\ KeyPut \in DOMAIN iamMap
    /\ iamMap[KeyPut] = <<ActPut, ActGet>>
    /\ KeyPut \in Range(lookupResult)

(***************************************************************************)
(* Reference notions for the run of main (not code).                       *)
(***************************************************************************)
\* The function the listing works on for entry f: its origin, if it has one.
Norm(f) == IF Attr(funcs, f).Origin # NilFn THEN Attr(funcs, f).Origin ELSE f

\* The listing loop has run.
Listed == pc = "listed" \/ (pc = "done" /\ whyFlag = <<>>)

\* The explain loop has ended.
Explained == pc = "done" /\ whyFlag # <<>>

\* Entry f passes every test of the listing loop but the path filter.
Classified(f) ==
    /\ Attr(funcs, f).Synthetic = ""
    /\ ~Attr(funcs, Norm(f)).Parent
    /\ sdkVersion(Attr(funcs, Norm(f))) # ""

\* The table holds no permission for SDK method m.
NoPermission(m) ==
    \A k \in DOMAIN iamMap : EqualFold(k, m) => iamMap[k] = <<>>

\* name is the name of a source function of the reachable set that some root
\* reaches by call edges.
Resolves(name) ==
    \E f \in reachable :
        /\ Attr(funcs, f).Synthetic = ""
        /\ Attr(funcs, f).Object
        /\ FnString(Attr(funcs, f)) = name
        /\ RootReaches(callgraph, f)

(***************************************************************************)
(* C5: no false negatives in the default listing: every entry of the       *)
(* reachable set that is a source function or an instantiation of a        *)
(* generic function, whose function (the origin, for an instantiation) is  *)
(* classified as an SDK call, and that some root reaches by call edges,    *)
(* has its operation name in the listing.                                  *)
(***************************************************************************)
C5_NoFalseNegatives ==
    (Listed /\ ~reflectionFlag) =>
        \A f \in reachable :
            LET a == Attr(funcs, f)
                b == Attr(funcs, Norm(f))
            IN ( /\ (a.Synthetic = "" \/ a.Origin # NilFn)
                 /\ sdkVersion(b) # ""
                 /\ RootReaches(callgraph, f) )
               => sdkMethodOf(b, sdkVersion(b)) \in Range(sdkMethods)

(***************************************************************************)
(* C7: the listing with -reflection includes the listing without it, for   *)
(* the same program; the default listing holds exactly the classified      *)
(* entries some root reaches by call edges, the listing with -reflection   *)
(* every classified entry, reached or not.                                 *)
(***************************************************************************)
C7_FlagMonotone ==
    Listed =>
        LET with == {listEntry(callgraph, funcs, f, TRUE) : f \in reachable} \ {<<>>}
            without == {listEntry(callgraph, funcs, f, FALSE) : f \in reachable} \ {<<>>}
        IN /\ ~reflectionFlag => Range(sdkMethods) \subseteq with
           /\ reflectionFlag => without \subseteq Range(sdkMethods)
           /\ Len(sdkMethods) =
                Cardinality({f \in reachable :
                    /\ Classified(f)
                    /\ (reflectionFlag \/ RootReaches(callgraph, Norm(f)))})

\* With -reflection, a classified function no root reaches by call edges is
\* listed next to one that a root reaches.
C7_Witness ==
    /\ pc = "listed"
    /\ reflectionFlag
    /\ Len(sdkMethods) = 2
    /\ \E f \in reachable : Classified(f) /\ ~RootReaches(callgraph, Norm(f))
    /\ \E f \in reachable : Classified(f) /\ RootReaches(callgraph, Norm(f))

(***************************************************************************)
(* C8: determinism: the outcome of a run does not depend on the order in   *)
(* which the maps are ranged over.  In the listing every action a forward  *)
(* lookup can return for a listed call, under any order, is among the      *)
(* printed ones; in explain mode every method of the reverse lookup that   *)
(* resolves to a path resolves to one of the printed length.               *)
(***************************************************************************)
\* The path whyReachable gives for the first of the names of method m that
\* resolves (nil: none does).
RECURSIVE firstPath(_, _)
firstPath(names, i) ==
    IF i > Len(names) THEN NilPath
    ELSE LET M == findFuncMatches(funcs, names[i])
             p == IF M = {} THEN NilPath
                  ELSE findPath(callgraph, CHOOSE f \in M : TRUE)
         IN IF ~p.isNil THEN p ELSE firstPath(names, i + 1)

C8_Deterministic ==
    /\ (Listed /\ pc = "done" /\ exit = "ok" /\ ~sdkcallsFlag) =>
          \A m \in Range(sdkMethods) :
              \A order \in Perms(DOMAIN iamMap) :
                  sdkMethodToAction(iamMap, m, order) \in Range(stdout) \cup {<<>>}
    /\ (Explained /\ exit = "ok") =>
          \A m \in Range(sdkMethods) :
              LET p == firstPath(possibleFunctionNames(m), 1)
              IN ~p.isNil => Len(p.edges) = Len(path.edges)

(***************************************************************************)
(* C9: explain mode hands whyReachable the v1 name and then the v2 name of *)
(* each method of the reverse lookup, in order, until one resolves to a    *)
(* path; it prints that first path and returns normally; it ends fatally,  *)
(* with no path printed, exactly when the reverse lookup is empty or no    *)
(* name resolves.                                                          *)
(***************************************************************************)
\* tried is a prefix of the v1 and v2 names of the methods, in order.
TriedInOrder ==
    /\ Len(tried) <= 2 * Len(sdkMethods)
    /\ \A i \in 1..Len(tried) :
          LET m == Split(sdkMethods[(i + 1) \div 2], ".")
              n == tried[i]
          IN IF i % 2 = 1
             THEN /\ n[2] = V1Prefix
                  /\ SubSeq(n, Len(n) - Len(m[2]), Len(n)) = m[2] \o <<"Request">>
             ELSE /\ n[2] = V2Prefix
                  /\ SubSeq(n, Len(n) - Len(m[2]) + 1, Len(n)) = m[2]

C9_ExplainOutcome ==
    Explained =>
        /\ exit \in {"ok", "fatal"}
        /\ TriedInOrder
        /\ sdkMethods = <<>> <=>
              ~\E k \in DOMAIN iamMap : \E i \in 1..Len(iamMap[k]) :
                    EqualFold(iamMap[k][i], whyFlag)
        /\ exit = "fatal" =>
              /\ path.isNil
              /\ Len(tried) = 2 * Len(sdkMethods)
              /\ \A i \in 1..Len(tried) : ~Resolves(tried[i])
        /\ exit = "ok" =>
              /\ tried # <<>>
              /\ Resolves(tried[Len(tried)])
              /\ \A i \in 1..(Len(tried) - 1) : ~Resolves(tried[i])
              /\ ~path.isNil
              /\ path.edges # <<>>
              /\ path.edges[1][1] \in RootIds
              /\ path.edges[Len(path.edges)][2] = qtarget
              /\ FnString(Attr(funcs, qtarget)) = tried[Len(tried)]

\* The first method of the reverse lookup has no function in the program, the
\* v1 name of the second does not resolve, its v2 name does: that path is
\* printed.
C9_Witness ==
    /\ Explained
    /\ exit = "ok"
    /\ Len(tried) = 4
    /\ Len(path.edges) = 2

(***************************************************************************)
(* C10: in listing mode an SDK call without a permission is skipped and    *)
(* the other permissions are printed; the run ends fatally, printing       *)
(* nothing, exactly when no SDK call is listed or, when permissions are    *)
(* asked for, no listed call has a permission.                             *)
(***************************************************************************)
C10_ListingOutcome ==
    (pc = "done" /\ whyFlag = <<>>) =>
        LET noCalls == ~\E f \in reachable :
                           /\ Classified(f)
                           /\ (reflectionFlag \/ RootReaches(callgraph, Norm(f)))
            withPerm == {i \in 1..Len(sdkMethods) : ~NoPermission(sdkMethods[i])}
        IN /\ exit \in {"ok", "fatal"}
           /\ exit = "fatal" <=> (noCalls \/ (~sdkcallsFlag /\ withPerm = {}))
           /\ exit = "fatal" => stdout = <<>>
           /\ (exit = "ok" /\ sdkcallsFlag) => stdout = sdkMethods
           /\ (exit = "ok" /\ ~sdkcallsFlag) =>
                 /\ Len(stdout) = Cardinality(withPerm)
                 /\ \A j \in 1..Len(stdout) :
                       \E i \in withPerm : \E k \in DOMAIN iamMap :
                           /\ EqualFold(k, sdkMethods[i])
                           /\ stdout[j] \in Range(iamMap[k])

\* Two calls are listed, one without a permission: the run prints the one
\* permission of the other and returns normally.
C10_Witness ==
    /\ pc = "done"
    /\ whyFlag = <<>>
    /\ ~sdkcallsFlag
    /\ exit = "ok"
    /\ Len(sdkMethods) = 2
    /\ Len(stdout) = 1

(***************************************************************************)
(* C11: a v1 function named <M>Request (package under the v1 prefix, file  *)
(* api.go) and a v2 function named <M> (package under the v2 prefix, file  *)
(* api_op_<M>.go) each yield the operation name <package name>.<M>, hence  *)
(* the same name for packages of the same name; a function that follows    *)
(* neither convention yields no name.                                      *)
(***************************************************************************)
\* The operation names <M>: every prefix of a function name.
OpNames == UNION {{SubSeq(n, 1, k) : k \in 0..Len(n)} : n \in ClassNames}

V1Convention(a, M) ==
    /\ a.pkgPath[1] = V1Prefix
    /\ a.filename[Len(a.filename)] = "/api.go"
    /\ a.name = M \o <<"Request">>

V2Convention(a, M) ==
    /\ a.pkgPath[1] = V2Prefix
    /\ a.name = M
    /\ Tail(a.filename) = <<"/api_op_">> \o M \o <<".go">>

NonEmptyRoots(g, t) ==
    {i \in 1..Len(roots) : roots[i] # t /\ Reaches(g, roots[i], t)}

\* The indices of the roots that reach t by zero or more edges.
ReachingRoots(g, t) == {i \in 1..Len(roots) : Reaches(g, roots[i], t)}

Least(S) == CHOOSE i \in S : \A j \in S : i <= j

C12_FirstNonEmptyWins ==
    (pc = "findPath" /\ NonEmptyRoots(callgraph, qtarget) # {}) =>
        LET r == roots[Least(NonEmptyRoots(callgraph, qtarget))]
        IN /\ ~path.isNil
           /\ Len(path.edges) > 0
           /\ path.edges[1][1] = r
           /\ Len(path.edges) = Dist(callgraph, r, qtarget)

(***************************************************************************)
(* C12, amended: findPath returns the BFS path of the first root, in list  *)
(* order, that yields a non-nil path; the empty path of a root that is the *)
(* target is non-nil and wins over a later root's non-empty path.          *)
(***************************************************************************)
C12_FirstNonNilWins ==
    pc = "findPath" =>
        IF ReachingRoots(callgraph, qtarget) = {} THEN path.isNil
        ELSE LET r == roots[Least(ReachingRoots(callgraph, qtarget))]
             IN /\ ~path.isNil
                /\ Len(path.edges) = Dist(callgraph, r, qtarget)
                /\ Len(path.edges) > 0 => path.edges[1][1] = r
                /\ r = qtarget => path.edges = <<>>

\* The target is the first root and the second root calls it: the first
\* root's empty path is returned.
C12_Witness ==
    /\ pc = "findPath"
    /\ qtarget = roots[1]
    /\ hasEdge(callgraph, roots[2], roots[1])
    /\ path = SomePath(<<>>)

(***************************************************************************)
(* C13: a non-nil path returned by bfs or findPath is a chain of edges of  *)
(* the call graph in caller-to-callee order: it starts at the start root,  *)
(* each edge's callee is the next edge's caller, it ends at the target,    *)
(* and no node occurs twice on it.                                         *)
(***************************************************************************)
\* The nodes along a non-empty chain of edges.
PathNodes(es) == <<es[1][1]>> \o [i \in 1..Len(es) |-> es[i][2]]

IsChain(g, es, s, t) ==
    IF es = <<>> THEN s = t
    ELSE /\ \A i \in 1..Len(es) : IsEdge(g, es[i])
         /\ es[1][1] = s
         /\ \A i \in 1..(Len(es) - 1) : es[i][2] = es[i + 1][1]
         /\ es[Len(es)][2] = t
         /\ \A i, j \in 1..Len(PathNodes(es)) :
               i # j => PathNodes(es)[i] # PathNodes(es)[j]

C13_PathIsChain ==
    /\ (pc = "bfs" /\ ~path.isNil) => IsChain(callgraph, path.edges, qstart, qtarget)
    /\ (pc = "findPath" /\ ~path.isNil) =>
          \E r \in RootIds : IsChain(callgraph, path.edges, r, qtarget)

\* A path of three edges returned by bfs.
C13_Witness ==
    /\ pc = "bfs"
    /\ ~path.isNil
    /\ Len(path.edges) = MaxNodes - 1
    /\ path.edges[1][1] = qstart

(***************************************************************************)
(* C14: once analyze has built them, no step of the run changes the call   *)
(* graph or the reachable set: no node or edge is added, removed or        *)
(* rewired, so a path query gives the same result before and after an      *)
(* explain query.                                                          *)
(***************************************************************************)
C14_GraphImmutable ==
    [][callgraph' = callgraph /\ funcs' = funcs]_vars

(***************************************************************************)
(* C15: whatever the flags, the mapping table has been loaded before a     *)
(* lookup is made in it; in particular the reverse lookup of explain mode  *)
(* is never made in the unloaded, empty table, also when -sdk-calls is     *)
(* given together with -why.                                               *)
(***************************************************************************)
C15_LoadedBeforeLookup ==
    (lookupArg # <<>> \/ (pc = "done" /\ whyFlag = <<>> /\ ~sdkcallsFlag))
        => iamMap = loadMap

=============================================================================
